---- MODULE Spec2Model ----
(***************************************************************************)
(* A model of the PostHog Redshift export plugin.                          *)
(*                                                                         *)
(* src/index.ts is the plugin with the buffer, the retry jobs and the      *)
(* callback-style executeQuery.  src/unnamed/part_000 (lines 1-211) is the *)
(* exportEvents variant of the same plugin: exportEvents, parseEvent,      *)
(* teardownPlugin and an executeQuery that returns the error.  Both entry  *)
(* paths are handlers of the one state machine below.                      *)
(*                                                                         *)
(* Every SQL value and every serialized text is modelled as a Text: a      *)
(* sequence of string tokens (TLA+ has no string concatenation).           *)
(***************************************************************************)
EXTENDS Integers, Sequences, FiniteSets, TLC

(***************************************************************************)
(* Bounds of the model.                                                    *)
(***************************************************************************)
\* flushes of the buffer (batches handed to the Delivery Coordinator)
MaxBatches == 1
\* calls of exportEvents
MaxExports == 2
\* the buffer's limit, scaled down from uploadMegabytes * 1024 * 1024
BufferLimit == 2
\* batchId is Math.floor(Math.random() * 1000000): drawn from 0..MaxBatchId
MaxBatchId == 1
\* flushes of the buffer followed while no executor call ends
MaxFlushes == 2
\* characters of a table name handed to the sanitizer
MaxNameLen == 4
\* batches flushed while retries of several batches are followed
MaxRetryBatches == 2

(***************************************************************************)
(* Program constants.                                                      *)
(***************************************************************************)
\* if (payload.retriesPerformedSoFar >= 15)
RetryCeiling == 15
\* 2 ** payload.retriesPerformedSoFar * 3000
RetryBaseMs == 3000
\* for (let j = 1; j <= 11; ++j)
ColumnsPerRow == 11

(***************************************************************************)
(* JavaScript values, as far as the handlers look into them.               *)
(***************************************************************************)
Undefined == [t |-> "undefined"]
Null == [t |-> "null"]
Str(s) == [t |-> "string", s |-> s]
\* an object: its own keys in insertion order, each with its value
Obj(entries) == [t |-> "object", entries |-> entries]
Arr(items) == [t |-> "array", items |-> items]
Entry(k, v) == [k |-> k, v |-> v]

\* ToBoolean, as used by a || b
Truthy(v) ==
    /\ v.t \notin {"undefined", "null"}
    /\ ~(v.t = "string" /\ v.s = "")

\* a || b
Or(a, b) == IF Truthy(a) THEN a ELSE b

\* key in obj
HasKey(obj, key) == \E i \in 1..Len(obj.entries) : obj.entries[i].k = key

\* obj?.[key]
Get(obj, key) ==
    IF obj.t = "object" /\ HasKey(obj, key)
    THEN obj.entries[CHOOSE i \in 1..Len(obj.entries) : obj.entries[i].k = key].v
    ELSE Undefined

\* const { key, ...rest } = obj
Without(obj, key) ==
    LET keep(e) == e.k # key
    IN  Obj(SelectSeq(obj.entries, keep))

RECURSIVE JSONStringify(_)
RECURSIVE StringifyEntries(_, _)
RECURSIVE StringifyItems(_, _)
\* the members of an object: those with an undefined value are left out
StringifyEntries(entries, first) ==
    IF entries = <<>> THEN <<>>
    ELSE LET e == Head(entries)
         IN  IF e.v.t = "undefined"
             THEN StringifyEntries(Tail(entries), first)
             ELSE (IF first THEN <<>> ELSE <<",">>)
                  \o <<"\"", e.k, "\"", ":">> \o JSONStringify(e.v)
                  \o StringifyEntries(Tail(entries), FALSE)
\* the items of an array: an undefined item is written null
StringifyItems(items, first) ==
    IF items = <<>> THEN <<>>
    ELSE (IF first THEN <<>> ELSE <<",">>)
         \o (IF Head(items).t = "undefined" THEN <<"null">> ELSE JSONStringify(Head(items)))
         \o StringifyItems(Tail(items), FALSE)
\* JSON.stringify(v), as tokens
JSONStringify(v) ==
    CASE v.t = "object" -> <<"{">> \o StringifyEntries(v.entries, TRUE) \o <<"}">>
      [] v.t = "array" -> <<"[">> \o StringifyItems(v.items, TRUE) \o <<"]">>
      [] v.t = "string" -> <<"\"", v.s, "\"">>
      [] v.t = "null" -> <<"null">>
      [] OTHER -> <<"undefined">>

\* a scalar handed to the query as it is
Raw(v) == IF v.t = "string" THEN <<v.s>> ELSE <<v.t>>

(***************************************************************************)
(* Timestamps: new Date(timestamp).toISOString().                          *)
(***************************************************************************)
\* the date strings of the model, each with its canonical ISO-8601 form
DateTable ==
    [s \in {"2022-08-18T15:42:32.597Z", "2022-08-18T17:42:32.597+02:00"} |->
        "2022-08-18T15:42:32.597Z"]

\* new Date(v) is a valid date
ValidDate(v) == v.t = "string" /\ v.s \in DOMAIN DateTable

\* toISOString of a valid date (it throws a RangeError on an invalid one)
toISOString(v) == <<DateTable[v.s]>>

(***************************************************************************)
(* Events.  The handlers receive events of the host; the model draws them  *)
(* from this set.                                                          *)
(***************************************************************************)
Event(name, props, set, setOnce, uuid, ip, siteUrl, ts, now, sentAt) ==
    [event |-> name, properties |-> props, set |-> set, set_once |-> setOnce,
     distinct_id |-> Str("did1"), team_id |-> Str("1"), uuid |-> Str(uuid),
     ip |-> ip, site_url |-> siteUrl, timestamp |-> ts, now |-> now, sent_at |-> sentAt]

\* a plain event, as in the test of parseEvent
EvTest ==
    Event("test", Obj(<<Entry("foo", Str("bar"))>>), Undefined, Undefined,
          "uuid-1", Str("127.0.0.1"), Str("https://app"),
          Str("2022-08-18T15:42:32.597Z"), Undefined, Undefined)

\* an autocapture event whose properties carry $elements, $ip and a $set
EvAutocapture ==
    Event("$autocapture",
          Obj(<<Entry("$elements", Arr(<<Obj(<<Entry("tag_name", Str("a"))>>)>>)),
                Entry("a", Str("1")), Entry("$ip", Str("10.0.0.7"))>>),
          Obj(<<Entry("email", Str("x@y.z"))>>), Undefined,
          "uuid-2", Str("127.0.0.1"), Str("https://app"),
          Undefined, Str("2022-08-18T17:42:32.597+02:00"), Undefined)

\* an event whose name is in the ignore list
EvIgnored ==
    Event("ignore me", Undefined, Undefined, Undefined,
          "uuid-3", Str("127.0.0.1"), Undefined,
          Str("2022-08-18T15:42:32.597Z"), Undefined, Undefined)

\* an event with none of the timestamp candidates
EvNoTimestamp ==
    Event("test", Null, Undefined, Undefined,
          "uuid-4", Undefined, Undefined,
          Undefined, Undefined, Undefined)

Events == {EvTest, EvAutocapture, EvIgnored, EvNoTimestamp}

\* the elements of an autocapture event
SomeElements == Arr(<<Obj(<<Entry("tag_name", Str("a"))>>)>>)

\* an autocapture event with $elements and a timestamp of its own
EvAutocaptureStamped ==
    Event("$autocapture",
          Obj(<<Entry("a", Str("1")), Entry("$elements", SomeElements)>>),
          Undefined, Undefined, "uuid-5", Str("127.0.0.1"), Undefined,
          Str("2022-08-18T15:42:32.597Z"), Undefined, Undefined)

\* an autocapture event whose $elements is null
EvAutocaptureNull ==
    Event("$autocapture",
          Obj(<<Entry("$elements", Null), Entry("a", Str("1"))>>),
          Undefined, Undefined, "uuid-6", Str("127.0.0.1"), Undefined,
          Str("2022-08-18T15:42:32.597Z"), Undefined, Undefined)

\* an autocapture event without $elements
EvAutocapturePlain ==
    Event("$autocapture", Obj(<<Entry("a", Str("1"))>>),
          Undefined, Undefined, "uuid-7", Str("127.0.0.1"), Undefined,
          Str("2022-08-18T15:42:32.597Z"), Undefined, Undefined)

\* another event that carries $elements
EvPageviewElements ==
    Event("$pageview",
          Obj(<<Entry("$elements", SomeElements), Entry("b", Str("2"))>>),
          Undefined, Undefined, "uuid-8", Str("127.0.0.1"), Undefined,
          Str("2022-08-18T15:42:32.597Z"), Undefined, Undefined)

\* an event without properties
EvNoProperties ==
    Event("test", Undefined, Undefined, Undefined,
          "uuid-9", Str("127.0.0.1"), Undefined,
          Str("2022-08-18T15:42:32.597Z"), Undefined, Undefined)

\* an event whose name is in the ignore list, with none of the timestamp
\* candidates
EvIgnoredNoTimestamp ==
    Event("ignore me", Undefined, Undefined, Undefined,
          "uuid-10", Str("127.0.0.1"), Undefined,
          Undefined, Undefined, Undefined)

\* events to tell the ignored from the others
IgnoreEvents == {EvTest, EvIgnored, EvIgnoredNoTimestamp, EvNoTimestamp}

\* the events parseEvent is applied to
ProcessedEvents ==
    Events \cup {EvAutocaptureStamped, EvAutocaptureNull, EvAutocapturePlain,
                 EvPageviewElements, EvNoProperties}

(***************************************************************************)
(* Event Normalizer.                                                       *)
(***************************************************************************)
\* the move of $elements without the test of the event's name
MovesElementsOfAnyEvent(event) ==
    /\ Truthy(event.properties)
    /\ event.properties.t = "object"
    /\ HasKey(event.properties, "$elements")

\* eventName === '$autocapture' && properties && '$elements' in properties
MovesElements(event) ==
    /\ event.event = "$autocapture"
    /\ Truthy(event.properties)
    /\ event.properties.t = "object"
    /\ HasKey(event.properties, "$elements")

\* the fields the two normalizers build alike
ParsedCommon(event) ==
    LET moves == MovesElements(event)
        ingestedProperties == IF moves THEN Without(event.properties, "$elements")
                              ELSE event.properties
        elements == IF moves THEN Get(event.properties, "$elements") ELSE Arr(<<>>)
    IN  [uuid |-> Raw(event.uuid),
         eventName |-> <<event.event>>,
         properties |-> JSONStringify(Or(ingestedProperties, Obj(<<>>))),
         elements |-> JSONStringify(Or(elements, Obj(<<>>))),
         set |-> JSONStringify(Or(event.set, Obj(<<>>))),
         set_once |-> JSONStringify(Or(event.set_once, Obj(<<>>))),
         distinct_id |-> Raw(event.distinct_id),
         team_id |-> Raw(event.team_id),
         ip |-> Raw(Or(Get(event.properties, "$ip"), event.ip))]

\* the candidates followed by a guess: the time of the call
onEventTimestampOrNow(event) ==
    Or(Or(Or(Or(event.timestamp, Get(event.properties, "timestamp")), event.now), event.sent_at),
       Str("2022-08-18T15:42:32.597Z"))

\* onEvent: event.timestamp || properties?.timestamp || now || sent_at
onEventTimestamp(event) ==
    Or(Or(Or(event.timestamp, Get(event.properties, "timestamp")), event.now), event.sent_at)

\* onEvent throws (new Date(timestamp).toISOString() on an invalid date)
onEventThrows(event) == ~ValidDate(onEventTimestamp(event))

\* onEvent's parsedEvent
onEventParsed(event) ==
    [f \in {"site_url", "timestamp"} |->
        IF f = "site_url" THEN Raw(event.site_url)
        ELSE toISOString(onEventTimestamp(event))] @@ ParsedCommon(event)

\* parseEvent throws
parseEventThrows(event) == ~ValidDate(event.timestamp)

\* parseEvent
parseEvent(event) ==
    [f \in {"site_url", "timestamp"} |->
        IF f = "site_url" THEN <<"">>
        ELSE toISOString(event.timestamp)] @@ ParsedCommon(event)

(***************************************************************************)
(* Insert Statement Builder.                                               *)
(***************************************************************************)
\* the column list of the INSERT
InsertColumns ==
    <<"uuid", "event", "properties", "elements", "set", "set_once",
      "distinct_id", "team_id", "ip", "site_url", "timestamp">>

\* the legacy value order of the first version of the plugin
LegacyRowValues(row) ==
    <<row.uuid, row.eventName, row.properties, row.elements, row.set, row.set_once,
      row.timestamp, row.team_id, row.distinct_id, row.ip, row.site_url>>

\* ...[uuid, eventName, properties, elements, set, set_once, distinct_id, team_id, ip, site_url, timestamp]
RowValues(row) ==
    <<row.uuid, row.eventName, row.properties, row.elements, row.set, row.set_once,
      row.distinct_id, row.team_id, row.ip, row.site_url, row.timestamp>>

\* the legacy numbering of the first version of the plugin: $${i*1}, $${i*2}, ...
LegacyPlaceholder(i, j) == (i + 1) * j

\* `$${11 * i + j}`: the placeholder of row i (from 0) and column j (from 1)
Placeholder(i, j) == ColumnsPerRow * i + j

\* valuesString: one group of placeholders per row
valuesString(batch) ==
    [k \in 1..Len(batch) |-> [j \in 1..ColumnsPerRow |-> Placeholder(k - 1, j)]]

RECURSIVE FlatValues(_, _)
\* values = [...values, ...row's values] for the rows from i on
FlatValues(batch, i) ==
    IF i > Len(batch) THEN <<>>
    ELSE RowValues(batch[i]) \o FlatValues(batch, i + 1)

\* the statement insertBatchIntoRedshift hands to executeQuery
InsertStatement(batch, tableName) ==
    [table |-> tableName, columns |-> InsertColumns,
     placeholders |-> valuesString(batch), values |-> FlatValues(batch, 1)]

\* getPropsInsertString
getPropsInsertString(stringifiedValue, propertiesDataType) ==
    IF propertiesDataType = "super"
    THEN <<"JSON_PARSE(">> \o stringifiedValue \o <<")">>
    ELSE stringifiedValue

\* a row with properties, set and set_once passed through getPropsInsertString
PropsWrapped(row, propertiesDataType) ==
    [row EXCEPT !.properties = getPropsInsertString(@, propertiesDataType),
                !.set = getPropsInsertString(@, propertiesDataType),
                !.set_once = getPropsInsertString(@, propertiesDataType)]

\* the statement of the exportEvents variant
ExportInsertStatement(events, tableName, propertiesDataType) ==
    InsertStatement([k \in 1..Len(events) |-> PropsWrapped(events[k], propertiesDataType)],
                    tableName)

(***************************************************************************)
(* Identifier Sanitizer.  An identifier is a sequence of characters.       *)
(***************************************************************************)
\* the characters of \w (which holds \d and _)
WordChars ==
    {"a", "b", "c", "d", "e", "f", "g", "h", "i", "j", "k", "l", "m", "n",
     "o", "p", "q", "r", "s", "t", "u", "v", "w", "x", "y", "z", "A", "B",
     "C", "D", "E", "F", "G", "H", "I", "J", "K", "L", "M", "N", "O", "P",
     "Q", "R", "S", "T", "U", "V", "W", "X", "Y", "Z", "0", "1", "2", "3",
     "4", "5", "6", "7", "8", "9", "_"}

\* a replace without the g flag: only the first run of other characters goes
sanitizeSqlIdentifierFirstRun(unquotedIdentifier) ==
    LET other == {k \in 1..Len(unquotedIdentifier) : unquotedIdentifier[k] \notin WordChars}
    IN  IF other = {}
        THEN unquotedIdentifier
        ELSE LET i == CHOOSE k \in other : \A l \in other : k <= l
                 after == {k \in i..Len(unquotedIdentifier) : unquotedIdentifier[k] \in WordChars}
                 j == IF after = {} THEN Len(unquotedIdentifier) + 1
                      ELSE CHOOSE k \in after : \A l \in after : k <= l
             IN  SubSeq(unquotedIdentifier, 1, i - 1)
                 \o SubSeq(unquotedIdentifier, j, Len(unquotedIdentifier))

\* unquotedIdentifier.replace(/[^\w\d_]+/g, '')
sanitizeSqlIdentifier(unquotedIdentifier) ==
    LET kept(c) == c \in WordChars
    IN  SelectSeq(unquotedIdentifier, kept)

(***************************************************************************)
(* Configuration.                                                          *)
(***************************************************************************)
\* the required options of setupPlugin
requiredConfigOptions == {"clusterHost", "clusterPort", "dbName", "dbUsername", "dbPassword"}

\* a configuration value given as text: its characters
Chars(cs) == [t |-> "chars", cs |-> cs]

\* the configurations of the model: the options present, the table name, the
\* column type of the exportEvents variant, the items of eventsToIgnore (the
\* text between the commas, each a sequence of tokens) and the upload options
UploadConfig(options, host, dataType, ignore, megabytes, minutes) ==
    [options |-> options, clusterHost |-> host,
     tableName |-> <<"m", "y", " ", "t", ";", "_", "1">>,
     propertiesDataType |-> dataType, eventsToIgnore |-> ignore,
     uploadMegabytes |-> megabytes, uploadMinutes |-> minutes]

\* a configuration that leaves the upload options out
Config(options, host, dataType, ignore) ==
    UploadConfig(options, host, dataType, ignore, Undefined, Undefined)

\* a host name, as the text before its last part and the last part
RedshiftHost == <<"my-cluster.abc.us-east-1.", "redshift.amazonaws.com">>
OtherHost == <<"some", ".host">>

Configs ==
    {Config(requiredConfigOptions, RedshiftHost, "varchar",
            <<<<" ", "ignore me">>, <<"$feature_flag_called", " ">>>>),
     Config(requiredConfigOptions, RedshiftHost, "super", <<<<"ignore me">>>>),
     Config(requiredConfigOptions, OtherHost, "varchar", <<<<"ignore me">>>>),
     Config(requiredConfigOptions \ {"dbName"}, RedshiftHost, "varchar", <<>>)}

\* the values of uploadMegabytes and uploadMinutes of the model: missing,
\* empty, non-numeric, zero, negative, in range, at the edges, above them, with
\* a fraction, with leading blanks, with a unit, hexadecimal and very large
UploadValues ==
    {Undefined, Chars(<<>>), Chars(<<"a", "b", "c">>), Chars(<<"0">>),
     Chars(<<"-", "5">>), Chars(<<"1">>), Chars(<<"7">>), Chars(<<"1", "0">>),
     Chars(<<"1", "1">>), Chars(<<"3", ".", "9">>), Chars(<<" ", "+", "8">>),
     Chars(<<"6", "0", "s">>), Chars(<<"0", "x", "1", "F">>),
     Chars(<<"9", "9", "9", "9", "9", "9", "9", "9", "9">>)}

\* configurations with every pair of upload options
UploadConfigs ==
    {UploadConfig(requiredConfigOptions, RedshiftHost, "varchar", <<<<"ignore me">>>>,
                  megabytes, minutes) :
        megabytes \in UploadValues, minutes \in UploadValues}

\* the characters of the table names of the model: a letter, a digit, the
\* underscore, the dot, a blank and a semicolon
NameChars == {"m", "1", "_", ".", " ", ";"}

\* every table name of up to MaxNameLen characters
TableNames == UNION {[1..n -> NameChars] : n \in 0..MaxNameLen}

\* configurations with every table name
NameConfigs ==
    {[Config(requiredConfigOptions, RedshiftHost, "varchar", <<<<"ignore me">>>>)
        EXCEPT !.tableName = name] : name \in TableNames}

\* a propertiesDataType that is neither of the two choices: the option left
\* out of the configuration
NoDataType == "undefined"

\* configurations with every propertiesDataType
DataTypeConfigs ==
    {Config(requiredConfigOptions, RedshiftHost, dataType, <<<<"ignore me">>>>) :
        dataType \in {"varchar", "super", NoDataType}}

\* the value of a digit in a radix up to 16
DigitValue ==
    [c \in {"0", "1", "2", "3", "4", "5", "6", "7", "8", "9"} |->
        CASE c = "0" -> 0 [] c = "1" -> 1 [] c = "2" -> 2 [] c = "3" -> 3 [] c = "4" -> 4
          [] c = "5" -> 5 [] c = "6" -> 6 [] c = "7" -> 7 [] c = "8" -> 8 [] OTHER -> 9]
    @@ [c \in {"a", "b", "c", "d", "e", "f"} |->
        CASE c = "a" -> 10 [] c = "b" -> 11 [] c = "c" -> 12 [] c = "d" -> 13
          [] c = "e" -> 14 [] OTHER -> 15]
    @@ [c \in {"A", "B", "C", "D", "E", "F"} |->
        CASE c = "A" -> 10 [] c = "B" -> 11 [] c = "C" -> 12 [] c = "D" -> 13
          [] c = "E" -> 14 [] OTHER -> 15]

\* c is a digit of the radix
IsDigit(c, radix) == c \in DOMAIN DigitValue /\ DigitValue[c] < radix

RECURSIVE ParseDigits(_, _, _)
\* the number of the longest prefix of cs made of digits of the radix, read
\* after the digits of acc
ParseDigits(cs, radix, acc) ==
    IF cs # <<>> /\ IsDigit(Head(cs), radix)
    THEN ParseDigits(Tail(cs), radix, acc * radix + DigitValue[Head(cs)])
    ELSE acc

\* the not-a-number result of parseInt
NaN == [nan |-> TRUE]
Num(n) == [nan |-> FALSE, n |-> n]

RECURSIVE TrimStart(_)

\* parseInt(v): leading blanks and a sign are skipped, 0x or 0X selects radix
\* 16, the longest prefix of digits is read; NaN when there is none (also for
\* undefined, which is parsed as the text "undefined")
parseInt(v) ==
    IF v.t # "chars" THEN NaN
    ELSE LET trimmed == TrimStart(v.cs)
             negative == trimmed # <<>> /\ Head(trimmed) = "-"
             signed == trimmed # <<>> /\ Head(trimmed) \in {"-", "+"}
             unsigned == IF signed THEN Tail(trimmed) ELSE trimmed
             hex == Len(unsigned) >= 2 /\ unsigned[1] = "0" /\ unsigned[2] \in {"x", "X"}
             radix == IF hex THEN 16 ELSE 10
             digits == IF hex THEN Tail(Tail(unsigned)) ELSE unsigned
             n == ParseDigits(digits, radix, 0)
         IN  IF digits = <<>> \/ ~IsDigit(Head(digits), radix) THEN NaN
             ELSE Num(IF negative THEN 0 - n ELSE n)

\* x || fallback for a number x: NaN and 0 are falsy
OrNumber(x, fallback) == IF x.nan \/ x.n = 0 THEN fallback ELSE x.n

\* Math.min and Math.max
Min(a, b) == IF a < b THEN a ELSE b
Max(a, b) == IF a > b THEN a ELSE b

\* const uploadMegabytes = Math.max(1, Math.min(parseInt(config.uploadMegabytes) || 1, 10))
uploadMegabytes(cfg) == Max(1, Min(OrNumber(parseInt(cfg.uploadMegabytes), 1), 10))

\* const uploadMinutes = Math.max(1, Math.min(parseInt(config.uploadMinutes) || 1, 60))
uploadMinutes(cfg) == Max(1, Min(OrNumber(parseInt(cfg.uploadMinutes), 1), 60))

\* limit: uploadMegabytes * 1024 * 1024
limit(cfg) == uploadMegabytes(cfg) * 1024 * 1024

\* the window of a later version of the plugin: uploadMinutes * 60
timeoutSecondsTimes60(cfg) == uploadMinutes(cfg) * 60

\* timeoutSeconds: uploadMinutes
timeoutSeconds(cfg) == uploadMinutes(cfg)

\* the item without its leading blanks
TrimStart(item) ==
    IF item # <<>> /\ Head(item) = " " THEN TrimStart(Tail(item)) ELSE item

RECURSIVE TrimEnd(_)
\* the item without its trailing blanks
TrimEnd(item) ==
    IF item # <<>> /\ item[Len(item)] = " "
    THEN TrimEnd(SubSeq(item, 1, Len(item) - 1)) ELSE item

\* event.trim(): the name left of an item
Trim(item) ==
    LET t == TrimEnd(TrimStart(item))
    IN  IF t = <<>> THEN "" ELSE t[1]

\* new Set(config.eventsToIgnore ? config.eventsToIgnore.split(',').map((event) => event.trim()) : null)
IgnoreSet(cfg) ==
    {Trim(cfg.eventsToIgnore[i]) : i \in 1..Len(cfg.eventsToIgnore)}

(***************************************************************************)
(* State.                                                                  *)
(***************************************************************************)
VARIABLES
    \* the plugin's life: "new", "bootstrapping", "ready", "failed", "down"
    plugin,
    \* meta.config
    config,
    \* meta.global: sanitizedTableName, eventsToIgnore, whether buffer exists and
    \* the options it was created with
    global,
    \* the rows pending in global.buffer
    buffer,
    \* the batches flushed so far, each with its latest payload and attempt
    batches,
    \* the retry jobs the scheduler holds
    jobs,
    \* the calls of exportEvents: the events handed in, the rows parsed from
    \* them, the call's status, and the statement and the client of its query
    exports,
    \* the executeQuery call of setupPlugin
    boot,
    \* the latest call of onEvent: its event and how the call ended
    onEventCall

vars == <<plugin, config, global, buffer, batches, jobs, exports, boot, onEventCall>>

\* what a query can come to: connect() rejects, query() rejects, or both succeed
Outcomes == {"connectError", "queryError", "ok"}

BatchIds == 0..MaxBatchId

(***************************************************************************)
(* Query executor of src/index.ts.                                         *)
(***************************************************************************)
\* executeQuery: connect() is awaited outside the try block; the callback runs
\* inside try/catch; end() follows the catch.  callbackThrows: the callback
\* throws when it is handed an error.  The result is the client's state when the
\* call ends, whether the call raised, and what the callback was called with.
executeQuery(outcome, callbackThrows) ==
    CASE outcome = "connectError" ->
            [client |-> "connectFailed", raised |-> TRUE, called |-> "none"]
      [] outcome = "ok" ->
            [client |-> "ended", raised |-> FALSE, called |-> "null"]
      [] OTHER ->
            IF callbackThrows
            THEN [client |-> "connected", raised |-> TRUE, called |-> "err"]
            ELSE [client |-> "ended", raised |-> FALSE, called |-> "err"]

(***************************************************************************)
(* setupPlugin of src/index.ts.                                            *)
(***************************************************************************)
\* a bootstrap callback that only logs the error
setupCallbackSwallows == FALSE

\* the callback of the CREATE TABLE: if (err) { throw new Error(...) }
setupCallbackThrows == TRUE

\* CREATE TABLE IF NOT EXISTS public.<tableName> (...): the table and the types
\* of its properties, elements, set and set_once columns
CreateTable(tableName, propertiesColumnType) ==
    [table |-> tableName, properties |-> propertiesColumnType,
     elements |-> "varchar(65535)", set |-> propertiesColumnType,
     set_once |-> propertiesColumnType]

\* no call yet; later the call's status, its client, whether it raised an
\* error to setupPlugin, what the query came to, and the statements handed to
\* executeQuery
NoCall ==
    [status |-> "none", client |-> "none", raised |-> FALSE, outcome |-> "none",
     statements |-> <<>>]

\* setupPlugin up to its await of executeQuery
setupPlugin ==
    /\ plugin = "new"
    /\ IF ~(requiredConfigOptions \subseteq config.options)
       THEN \* throw new Error(`Config option ${option} is missing!`)
            /\ plugin' = "failed"
            /\ UNCHANGED <<global, boot>>
       ELSE /\ plugin' = "bootstrapping"
            /\ global' = [global EXCEPT
                            !.sanitizedTableName = sanitizeSqlIdentifier(config.tableName)]
            /\ boot' = [status |-> "InFlight", client |-> "new", raised |-> FALSE,
                        outcome |-> "none",
                        statements |-> <<CreateTable(global'.sanitizedTableName,
                                                     "varchar(65535)")>>]
    /\ UNCHANGED <<config, buffer, batches, jobs, exports, onEventCall>>

\* the rest of setupPlugin: the CREATE TABLE ends, its callback throws on an
\* error, and then the buffer and the ignore set are created
setupPluginDone(outcome) ==
    /\ plugin = "bootstrapping"
    /\ boot.status = "InFlight"
    /\ LET res == executeQuery(outcome, setupCallbackThrows)
       IN  /\ boot' = [boot EXCEPT !.status = "Done", !.client = res.client,
                                    !.raised = res.raised, !.outcome = outcome]
           /\ IF res.raised
              THEN /\ plugin' = "failed"
                   /\ UNCHANGED global
              ELSE /\ plugin' = "ready"
                   /\ global' = [global EXCEPT !.buffer = TRUE,
                                               !.limit = limit(config),
                                               !.timeoutSeconds = timeoutSeconds(config),
                                               !.eventsToIgnore = IgnoreSet(config)]
    /\ UNCHANGED <<config, buffer, batches, jobs, exports, onEventCall>>

(***************************************************************************)
(* Delivery Coordinator of src/index.ts.                                   *)
(***************************************************************************)
RECURSIVE Pow2(_)
\* 2 ** n
Pow2(n) == IF n = 0 THEN 1 ELSE 2 * Pow2(n - 1)

\* a linear backoff instead of the exponential one
nextRetryMsLinear(payload) == (payload.retriesPerformedSoFar + 1) * RetryBaseMs

\* a backoff that starts at the doubled base
nextRetryMsNextPower(payload) == Pow2(payload.retriesPerformedSoFar + 1) * RetryBaseMs

\* const nextRetryMs = 2 ** payload.retriesPerformedSoFar * 3000
nextRetryMs(payload) == Pow2(payload.retriesPerformedSoFar) * RetryBaseMs

\* the ceiling compared with > instead of >=
SchedulesRetryOffByOne(payload) == ~(payload.retriesPerformedSoFar > RetryCeiling)

\* the callback goes on to schedule a retry: not (retriesPerformedSoFar >= 15)
SchedulesRetry(payload) == ~(payload.retriesPerformedSoFar >= RetryCeiling)

\* a retry payload that carries the count of the failed attempt on
RetryPayloadSameCount(payload) == payload

\* { ...payload, retriesPerformedSoFar: payload.retriesPerformedSoFar + 1 }
RetryPayload(payload) ==
    [payload EXCEPT !.retriesPerformedSoFar = payload.retriesPerformedSoFar + 1]

\* jobs.uploadBatchToRedshift(...).runIn(nextRetryMs, 'milliseconds'); b is the
\* delivery of the model the job belongs to, fired the payloads the scheduler
\* has handed to uploadBatchToRedshift for this job so far
RetryJob(b, payload) ==
    [b |-> b, payload |-> RetryPayload(payload), delay |-> nextRetryMs(payload),
     fired |-> <<>>]

\* the record of a batch before its first submission; flush is the flush of
\* the buffer the rows come from, delayMs the delays of the retry jobs
\* enqueued for the batch so far, added up
NewBatch ==
    [payload |-> [batch |-> <<>>, batchId |-> 0, retriesPerformedSoFar |-> 0],
     status |-> "Pending", query |-> InsertStatement(<<>>, <<>>), client |-> "none",
     entries |-> 0, execCalls |-> 0, enqueues |-> 0, failedBelow |-> 0, flush |-> 0,
     delayMs |-> 0]

\* insertBatchIntoRedshift up to its await of executeQuery: the statement is
\* built and handed to the executor, which opens a client of its own
insertBatchIntoRedshift(payload, rec) ==
    [rec EXCEPT !.payload = payload,
                !.status = "Submitted",
                !.query = InsertStatement(payload.batch, global.sanitizedTableName),
                !.client = "new",
                !.execCalls = rec.execCalls + 1]

\* a batch enters Submitted
Submit(payload, rec) ==
    [insertBatchIntoRedshift(payload, rec) EXCEPT !.entries = rec.entries + 1]

\* a callback that counts the retry on the payload it received and enqueues
\* that payload: payload.retriesPerformedSoFar++
insertBatchDoneInPlace(b, outcome) ==
    /\ b \in 1..Len(batches)
    /\ batches[b].status = "Submitted"
    /\ LET rec == batches[b]
           res == executeQuery(outcome, FALSE)
       IN  IF res.called = "err" /\ SchedulesRetry(rec.payload)
           THEN /\ jobs' = jobs \cup {RetryJob(b, rec.payload)}
                /\ batches' = [batches EXCEPT ![b] =
                                  [rec EXCEPT !.client = res.client,
                                              !.payload = RetryPayload(rec.payload),
                                              !.status = "AwaitingRetry",
                                              !.enqueues = rec.enqueues + 1]]
           ELSE /\ batches' = [batches EXCEPT ![b] =
                                  [rec EXCEPT !.client = res.client,
                                              !.status = IF res.raised THEN "Raised"
                                                         ELSE IF res.called = "null"
                                                              THEN "Delivered"
                                                              ELSE "Abandoned"]]
                /\ UNCHANGED jobs
    /\ UNCHANGED <<plugin, config, global, buffer, exports, boot, onEventCall>>

\* the executor call of batch b ends: the rest of insertBatchIntoRedshift.  The
\* callback logs on an error, returns at the ceiling and otherwise hands the
\* retry job to the scheduler, which accepts every job (runIn does not reject),
\* so this callback does not throw.
insertBatchDone(b, outcome) ==
    /\ b \in 1..Len(batches)
    /\ batches[b].status = "Submitted"
    /\ LET rec == batches[b]
           res == executeQuery(outcome, FALSE)
           failed == [rec EXCEPT !.client = res.client,
                                 !.failedBelow = IF rec.payload.retriesPerformedSoFar < RetryCeiling
                                                 THEN rec.failedBelow + 1 ELSE rec.failedBelow]
       IN  CASE res.raised ->
                  \* the rejection of connect() leaves insertBatchIntoRedshift
                  /\ batches' = [batches EXCEPT ![b] = [failed EXCEPT !.status = "Raised"]]
                  /\ UNCHANGED jobs
             [] res.called = "null" ->
                  /\ batches' = [batches EXCEPT ![b] =
                                    [rec EXCEPT !.client = res.client, !.status = "Delivered"]]
                  /\ UNCHANGED jobs
             [] OTHER ->
                  IF SchedulesRetry(rec.payload)
                  THEN /\ jobs' = jobs \cup {RetryJob(b, rec.payload)}
                       /\ batches' = [batches EXCEPT ![b] =
                                         [failed EXCEPT !.status = "AwaitingRetry",
                                                        !.enqueues = rec.enqueues + 1,
                                                        !.delayMs = rec.delayMs
                                                                    + nextRetryMs(rec.payload)]]
                  ELSE /\ batches' = [batches EXCEPT ![b] = [failed EXCEPT !.status = "Abandoned"]]
                       /\ UNCHANGED jobs
    /\ UNCHANGED <<plugin, config, global, buffer, exports, boot, onEventCall>>

\* jobs.uploadBatchToRedshift: the scheduler fires a retry job
uploadBatchToRedshift(job) ==
    /\ job \in jobs
    /\ jobs' = jobs \ {job}
    /\ batches' = [batches EXCEPT ![job.b] = Submit(job.payload, batches[job.b])]
    /\ UNCHANGED <<plugin, config, global, buffer, exports, boot, onEventCall>>

\* a scheduler with at-least-once execution fires a retry job and keeps it
\* queued: uploadBatchToRedshift runs as above, and the job may fire again
uploadBatchToRedshiftUnacked(job) ==
    /\ job \in jobs
    /\ job.fired = <<>>
    /\ jobs' = (jobs \ {job}) \cup {[job EXCEPT !.fired = <<job.payload>>]}
    /\ batches' = [batches EXCEPT ![job.b] = Submit(job.payload, batches[job.b])]
    /\ UNCHANGED <<plugin, config, global, buffer, exports, boot, onEventCall>>

\* the scheduler fires a job it has fired before: uploadBatchToRedshift runs
\* once more with the job's payload, as a further delivery of the same flush
uploadBatchToRedshiftAgain(job) ==
    /\ job \in jobs
    /\ job.fired # <<>>
    /\ jobs' = jobs \ {job}
    /\ batches' = Append(batches,
                         Submit(job.payload,
                                [NewBatch EXCEPT !.flush = batches[job.b].flush]))
    /\ UNCHANGED <<plugin, config, global, buffer, exports, boot, onEventCall>>

(***************************************************************************)
(* Batch Buffer (createBuffer of @posthog/plugin-contrib).                 *)
(***************************************************************************)
\* onFlush: async (batch) => insertBatchIntoRedshift({ batch, batchId, retriesPerformedSoFar: 0 }, meta)
onFlush(batch, batchId) ==
    batches' = Append(batches,
                      Submit([batch |-> batch, batchId |-> batchId,
                              retriesPerformedSoFar |-> 0],
                             [NewBatch EXCEPT !.flush = Len(batches) + 1]))

\* a flush that calls the flush handler and keeps the rows
BufferFlushKeepsRows(pending) ==
    IF pending = <<>>
    THEN /\ buffer' = <<>>
         /\ UNCHANGED batches
    ELSE /\ buffer' = pending
         /\ \E batchId \in BatchIds : onFlush(pending, batchId)

\* flush(): snapshot and clear the pending rows and call the flush handler;
\* nothing happens on an empty buffer
BufferFlush(pending) ==
    IF pending = <<>>
    THEN /\ buffer' = <<>>
         /\ UNCHANGED batches
    ELSE /\ buffer' = <<>>
         /\ \E batchId \in BatchIds : onFlush(pending, batchId)

\* an add that flushes only when the accumulated size exceeds the limit
BufferAddOverLimit(row) ==
    LET pending == Append(buffer, row)
    IN  IF Len(pending) > BufferLimit
        THEN BufferFlush(pending)
        ELSE /\ buffer' = pending
             /\ UNCHANGED batches

\* add(row): append the row; flush when the accumulated size reaches the limit
BufferAdd(row) ==
    LET pending == Append(buffer, row)
    IN  IF Len(pending) >= BufferLimit
        THEN BufferFlush(pending)
        ELSE /\ buffer' = pending
             /\ UNCHANGED batches

\* the time window has elapsed on a buffer that holds rows
BufferTimeout ==
    /\ plugin = "ready"
    /\ global.buffer
    /\ buffer # <<>>
    /\ BufferFlush(buffer)
    /\ UNCHANGED <<plugin, config, global, jobs, exports, boot, onEventCall>>

(***************************************************************************)
(* onEvent of src/index.ts and teardownPlugin.                             *)
(***************************************************************************)
\* no call of onEvent yet
NoEvent == [event |-> Undefined, outcome |-> "none"]

\* onEvent: the row is built first (toISOString throws a RangeError on an
\* invalid date), then the ignore set is asked (a TypeError when setupPlugin
\* has not come to create it), then the row is added to the buffer
onEvent(event) ==
    /\ plugin \in {"ready", "failed"}
    /\ IF onEventThrows(event)
       THEN /\ onEventCall' = [event |-> event, outcome |-> "RangeError"]
            /\ UNCHANGED <<buffer, batches>>
       ELSE IF ~global.buffer
            THEN /\ onEventCall' = [event |-> event, outcome |-> "TypeError"]
                 /\ UNCHANGED <<buffer, batches>>
            ELSE IF event.event \notin global.eventsToIgnore
                 THEN /\ onEventCall' = [event |-> event, outcome |-> "added"]
                      /\ BufferAdd(onEventParsed(event))
                 ELSE /\ onEventCall' = [event |-> event, outcome |-> "ignored"]
                      /\ UNCHANGED <<buffer, batches>>
    /\ UNCHANGED <<plugin, config, global, jobs, exports, boot>>

\* a teardown that does not flush the buffer
teardownPluginWithoutFlush ==
    /\ plugin = "ready"
    /\ plugin' = "down"
    /\ UNCHANGED <<buffer, batches>>
    /\ UNCHANGED <<config, global, jobs, exports, boot, onEventCall>>

\* teardownPlugin: global.buffer.flush()
teardownPlugin ==
    /\ plugin = "ready"
    /\ plugin' = "down"
    /\ BufferFlush(buffer)
    /\ UNCHANGED <<config, global, jobs, exports, boot, onEventCall>>

(***************************************************************************)
(* The exportEvents variant (src/unnamed/part_000, lines 1-211).           *)
(***************************************************************************)
\* events of one exportEvents call
MaxExportEvents == 2

\* config.clusterHost.endsWith('redshift.amazonaws.com')
EndsWithRedshift(host) == host # <<>> /\ host[Len(host)] = "redshift.amazonaws.com"

\* unquotedIdentifier.replace(/[^\w\d_.]+/g, '')
sanitizeSqlIdentifierDot(unquotedIdentifier) ==
    LET kept(c) == c \in WordChars \cup {"."}
    IN  SelectSeq(unquotedIdentifier, kept)

\* const propertiesDataType =
\*     config.propertiesDataType === 'varchar' ? 'varchar(65535)' : 'super'
ExportColumnType(cfg) ==
    IF cfg.propertiesDataType = "varchar" THEN "varchar(65535)" ELSE "super"

\* executeQuery of the variant: connect and query inside try, end() in finally,
\* the error returned
ExportExecuteQuery(outcome) ==
    [client |-> "ended", error |-> outcome # "ok"]

\* setupPlugin of the variant up to its await of executeQuery
ExportSetupPlugin ==
    /\ plugin = "new"
    /\ IF \/ ~(requiredConfigOptions \subseteq config.options)
          \/ ~EndsWithRedshift(config.clusterHost)
       THEN /\ plugin' = "failed"
            /\ UNCHANGED <<global, boot>>
       ELSE /\ plugin' = "bootstrapping"
            /\ global' = [global EXCEPT
                            !.sanitizedTableName = sanitizeSqlIdentifierDot(config.tableName)]
            /\ boot' = [status |-> "InFlight", client |-> "new", raised |-> FALSE,
                        outcome |-> "none",
                        statements |-> <<CreateTable(global'.sanitizedTableName,
                                                     ExportColumnType(config))>>]
    /\ UNCHANGED <<config, buffer, batches, jobs, exports, onEventCall>>

\* the rest of the variant's setupPlugin
ExportSetupPluginDone(outcome) ==
    /\ plugin = "bootstrapping"
    /\ boot.status = "InFlight"
    /\ LET res == ExportExecuteQuery(outcome)
       IN  /\ boot' = [boot EXCEPT !.status = "Done", !.client = res.client,
                                    !.raised = res.error, !.outcome = outcome]
           /\ IF res.error
              THEN /\ plugin' = "failed"
                   /\ UNCHANGED global
              ELSE /\ plugin' = "ready"
                   /\ global' = [global EXCEPT !.eventsToIgnore = IgnoreSet(config)]
    /\ UNCHANGED <<config, buffer, batches, jobs, exports, onEventCall>>

\* events.filter((event) => !meta.global.eventsToIgnore.has(event.event))
eventsToExport(events) ==
    LET kept(event) == event.event \notin global.eventsToIgnore
    IN  SelectSeq(events, kept)

\* exportEvents up to the await of executeQuery in insertBatchIntoRedshift
exportEvents(events) ==
    /\ plugin = "ready"
    /\ Len(exports) < MaxExports
    /\ LET toExport == eventsToExport(events)
       IN  IF \E i \in 1..Len(toExport) : parseEventThrows(toExport[i])
           THEN \* eventsToExport.map(parseEvent) throws a RangeError: the call
                \* ends before insertBatchIntoRedshift
                exports' = Append(exports,
                        [input |-> events, events |-> <<>>, status |-> "RangeError",
                         client |-> "none", query |-> InsertStatement(<<>>, <<>>)])
           ELSE LET parsedEvents == [i \in 1..Len(toExport) |-> parseEvent(toExport[i])]
                IN  exports' = Append(exports,
                        [input |-> events, events |-> parsedEvents, status |-> "InFlight",
                         client |-> "new",
                         query |-> ExportInsertStatement(parsedEvents, global.sanitizedTableName,
                                                         config.propertiesDataType)])
    /\ UNCHANGED <<plugin, config, global, buffer, batches, jobs, boot, onEventCall>>

\* the executor call of an exportEvents call ends: an error becomes a RetryError
exportEventsDone(x, outcome) ==
    /\ x \in 1..Len(exports)
    /\ exports[x].status = "InFlight"
    /\ LET res == ExportExecuteQuery(outcome)
       IN  exports' = [exports EXCEPT ![x].client = res.client,
                                      ![x].status = IF res.error THEN "RetryError" ELSE "Done"]
    /\ UNCHANGED <<plugin, config, global, buffer, batches, jobs, boot, onEventCall>>

(***************************************************************************)
(* setupPlugin of the first version of the plugin (src/unnamed/part_000,   *)
(* lines 213-432), whose executeQuery does not wait for its query.         *)
(***************************************************************************)
\* setupPlugin of the first version up to the await of executeQuery
LegacySetupPlugin ==
    /\ plugin = "new"
    /\ IF ~(requiredConfigOptions \subseteq config.options)
       THEN /\ plugin' = "failed"
            /\ UNCHANGED <<global, boot>>
       ELSE /\ plugin' = "bootstrapping"
            /\ global' = [global EXCEPT
                            !.sanitizedTableName = sanitizeSqlIdentifier(config.tableName)]
            /\ boot' = [status |-> "InFlight", client |-> "new", raised |-> FALSE,
                        outcome |-> "none",
                        statements |-> <<[CreateTable(global'.sanitizedTableName, "varchar")
                                           EXCEPT !.elements = "varchar"]>>]
    /\ UNCHANGED <<config, buffer, batches, jobs, exports, onEventCall>>

\* executeQuery of the first version: await pgClient.connect(), then
\* pgClient.query(query, values, callback) is started and executeQuery returns.
\* A rejected connect() ends setupPlugin; otherwise setupPlugin goes on to
\* create the buffer and the ignore set while the CREATE TABLE is in flight.
LegacySetupPluginConnected(connected) ==
    /\ plugin = "bootstrapping"
    /\ boot.status = "InFlight"
    /\ boot.client = "new"
    /\ IF ~connected
       THEN /\ boot' = [boot EXCEPT !.status = "Done", !.client = "connectFailed",
                                    !.raised = TRUE, !.outcome = "connectError"]
            /\ plugin' = "failed"
            /\ UNCHANGED global
       ELSE /\ boot' = [boot EXCEPT !.client = "connected"]
            /\ plugin' = "ready"
            /\ global' = [global EXCEPT !.buffer = TRUE,
                                        !.limit = limit(config),
                                        !.timeoutSeconds = timeoutSeconds(config),
                                        !.eventsToIgnore = IgnoreSet(config)]
    /\ UNCHANGED <<config, buffer, batches, jobs, exports, onEventCall>>

\* the CREATE TABLE of the first version ends: the callback of pgClient.query
\* ends the client and calls the callback of setupPlugin, whose throw on an
\* error is outside setupPlugin, which has returned
LegacyCreateTableDone(outcome) ==
    /\ boot.status = "InFlight"
    /\ boot.client = "connected"
    /\ outcome # "connectError"
    /\ boot' = [boot EXCEPT !.status = "Done", !.client = "ended", !.outcome = outcome]
    /\ UNCHANGED <<plugin, config, global, buffer, batches, jobs, exports, onEventCall>>

(***************************************************************************)
(* Specifications.                                                         *)
(***************************************************************************)
\* the state before setupPlugin runs, with a configuration of configs
InitWith(configs) ==
    /\ plugin = "new"
    /\ config \in configs
    /\ global = [sanitizedTableName |-> <<>>, eventsToIgnore |-> {}, buffer |-> FALSE,
                 limit |-> 0, timeoutSeconds |-> 0]
    /\ buffer = <<>>
    /\ batches = <<>>
    /\ jobs = {}
    /\ exports = <<>>
    /\ boot = NoCall
    /\ onEventCall = NoEvent

Init == InitWith(Configs)

\* the model follows the program up to n flushes of the buffer
FlushesWithin(n) == Len(batches') <= n

\* the plugin of src/index.ts
Next ==
    \/ setupPlugin
    \/ \E outcome \in Outcomes : setupPluginDone(outcome)
    \/ \E event \in Events : onEvent(event) /\ FlushesWithin(MaxBatches)
    \/ BufferTimeout /\ FlushesWithin(MaxBatches)
    \/ teardownPlugin /\ FlushesWithin(MaxBatches)
    \/ \E b \in 1..MaxBatches, outcome \in Outcomes : insertBatchDone(b, outcome)
    \/ \E job \in jobs : uploadBatchToRedshift(job)

Spec == Init /\ [][Next]_vars

\* sequences of events handed to exportEvents
EventBatches ==
    UNION {[1..n -> Events] : n \in 1..MaxExportEvents}

\* the exportEvents variant
ExportNext ==
    \/ ExportSetupPlugin
    \/ \E outcome \in Outcomes : ExportSetupPluginDone(outcome)
    \/ \E events \in EventBatches : exportEvents(events)
    \/ \E x \in 1..MaxExports, outcome \in Outcomes : exportEventsDone(x, outcome)

ExportSpec == Init /\ [][ExportNext]_vars

\* the exportEvents variant with every propertiesDataType
DialectSpec == InitWith(DataTypeConfigs) /\ [][ExportNext]_vars

\* parseEvent on every event of ProcessedEvents: calls of exportEvents with one
\* event each
ParseNext ==
    \/ ExportSetupPlugin
    \/ \E outcome \in Outcomes : ExportSetupPluginDone(outcome)
    \/ \E event \in ProcessedEvents : exportEvents(<<event>>)
    \/ \E x \in 1..MaxExports, outcome \in Outcomes : exportEventsDone(x, outcome)

ParseSpec == Init /\ [][ParseNext]_vars

\* setupPlugin of src/index.ts on every pair of upload options
SetupNext ==
    \/ setupPlugin
    \/ \E outcome \in Outcomes : setupPluginDone(outcome)

SetupSpec == InitWith(UploadConfigs) /\ [][SetupNext]_vars

\* the sanitizer of src/index.ts and the one of the exportEvents variant on
\* every table name: setupPlugin of either up to its CREATE TABLE
SanitizeNext ==
    \/ setupPlugin
    \/ ExportSetupPlugin

SanitizeSpec == InitWith(NameConfigs) /\ [][SanitizeNext]_vars

\* setupPlugin of the first version on every pair of upload options
LegacyNext ==
    \/ LegacySetupPlugin
    \/ \E connected \in BOOLEAN : LegacySetupPluginConnected(connected)
    \/ \E outcome \in Outcomes : LegacyCreateTableDone(outcome)

LegacySpec == InitWith(UploadConfigs) /\ [][LegacyNext]_vars

\* onEvent of src/index.ts on events of the ignore list and others, the
\* executor calls of the flushed batches in flight
IgnoreNext ==
    \/ setupPlugin
    \/ \E outcome \in Outcomes : setupPluginDone(outcome)
    \/ \E event \in IgnoreEvents : onEvent(event) /\ FlushesWithin(MaxFlushes)

IgnoreSpec == Init /\ [][IgnoreNext]_vars

\* the plugin up to the hand-over of its batches: events, the buffer's timer
\* and teardown, while the executor calls of the flushed batches are in flight
BufferNext ==
    \/ setupPlugin
    \/ \E outcome \in Outcomes : setupPluginDone(outcome)
    \/ \E event \in Events : onEvent(event) /\ FlushesWithin(MaxFlushes)
    \/ BufferTimeout /\ FlushesWithin(MaxFlushes)
    \/ teardownPlugin /\ FlushesWithin(MaxFlushes)

BufferSpec == Init /\ [][BufferNext]_vars

\* the delivery of several batches: one configuration and one event, the
\* buffer flushed up to MaxRetryBatches times, every executor call ending in
\* every way and every retry job firing
RetryNext ==
    \/ setupPlugin
    \/ setupPluginDone("ok")
    \/ onEvent(EvTest) /\ FlushesWithin(MaxRetryBatches)
    \/ BufferTimeout /\ FlushesWithin(MaxRetryBatches)
    \/ \E b \in 1..MaxRetryBatches, outcome \in Outcomes : insertBatchDone(b, outcome)
    \/ \E job \in jobs : uploadBatchToRedshift(job)

RetrySpec ==
    /\ InitWith({Config(requiredConfigOptions, RedshiftHost, "varchar", <<>>)})
    /\ [][RetryNext]_vars

\* deliveries of the model under a scheduler that may fire a job twice
MaxDeliveries == 2

\* the model follows the program up to n deliveries, the second firing of a
\* job that is still queued counted in
RefiresWithin(n) ==
    Len(batches') + Cardinality({job \in jobs' : job.fired # <<>>}) <= n

\* the delivery of a batch under a scheduler with at-least-once execution: a
\* retry job fires once or twice
RefireNext ==
    \/ setupPlugin
    \/ setupPluginDone("ok")
    \/ onEvent(EvTest) /\ RefiresWithin(MaxDeliveries)
    \/ BufferTimeout /\ RefiresWithin(MaxDeliveries)
    \/ \E b \in 1..MaxDeliveries, outcome \in Outcomes : insertBatchDone(b, outcome)
    \/ \E job \in jobs : job.fired = <<>> /\ uploadBatchToRedshift(job)
    \/ \E job \in jobs : uploadBatchToRedshiftUnacked(job) /\ RefiresWithin(MaxDeliveries)
    \/ \E job \in jobs : uploadBatchToRedshiftAgain(job)

RefireSpec ==
    /\ InitWith({Config(requiredConfigOptions, RedshiftHost, "varchar", <<>>)})
    /\ [][RefireNext]_vars

\* every executor call ends and every scheduled retry job fires
FairSpec ==
    /\ Spec
    /\ \A b \in 1..MaxBatches : WF_vars(\E outcome \in Outcomes : insertBatchDone(b, outcome))
    /\ WF_vars(\E job \in jobs : uploadBatchToRedshift(job))

(***************************************************************************)
(* Claims.                                                                 *)
(***************************************************************************)
\* the retry jobs pending for batch b
JobsOf(b) == {job \in jobs : job.b = b}

\* the latest attempt of batch b has failed
AttemptFailed(b) == batches[b].status \in {"AwaitingRetry", "Abandoned", "Raised"}

\* C1: when a delivery attempt fails with retriesPerformedSoFar >= 15, no retry
\* job is enqueued: the step that ends such an attempt leaves the scheduler's
\* jobs and the batch's count of scheduling calls as they were.
C1_NoRetryAtCeiling ==
    [][\A b \in 1..Len(batches) :
          ( /\ batches[b].status = "Submitted"
            /\ batches[b].payload.retriesPerformedSoFar >= 15
            /\ batches'[b].status \in {"AwaitingRetry", "Abandoned", "Raised"} )
          => /\ jobs' = jobs
             /\ batches'[b].enqueues = batches[b].enqueues]_vars

\* C1 witness: an attempt with retriesPerformedSoFar = 15 has failed and the
\* batch is abandoned after 15 scheduling calls
C1_Witness ==
    \E b \in 1..Len(batches) :
        /\ batches[b].status = "Abandoned"
        /\ batches[b].payload.retriesPerformedSoFar = 15
        /\ batches[b].enqueues = 15
        /\ JobsOf(b) = {}

\* C2: the retry job of an attempt that failed with retriesPerformedSoFar = r < 15
\* has delay 3000 * 2^r ms and a payload with retriesPerformedSoFar = r + 1 and
\* the rows (in order) and the batchId of the failed attempt.
C2_RetryJobShape ==
    \A job \in jobs :
        LET failed == batches[job.b].payload
            r == failed.retriesPerformedSoFar
        IN  /\ batches[job.b].status = "AwaitingRetry"
            /\ r < 15
            /\ job.delay = 3000 * 2^r
            /\ job.payload.retriesPerformedSoFar = r + 1
            /\ job.payload.batch = failed.batch
            /\ job.payload.batchId = failed.batchId

\* C2 witness: the retry job of a two-row batch whose attempt with
\* retriesPerformedSoFar = 3 failed is scheduled in 24000 ms
C2_Witness ==
    \E job \in jobs :
        /\ batches[job.b].payload.retriesPerformedSoFar = 3
        /\ job.delay = 24000
        /\ Len(job.payload.batch) = 2
        /\ job.payload.batch[1] # job.payload.batch[2]

\* C3: every entry of a batch into Submitted makes exactly one executor call, a
\* delivered batch has no retry job, and every failed call below the retry
\* ceiling is followed by exactly one scheduler enqueue.
C3_OneCallOneEnqueue ==
    \A b \in 1..Len(batches) :
        /\ batches[b].execCalls = batches[b].entries
        /\ batches[b].status = "Delivered" => JobsOf(b) = {}
        /\ batches[b].enqueues = batches[b].failedBelow

\* C4: a batch that is not delivered and whose latest attempt failed with
\* retriesPerformedSoFar < 15 has a retry job scheduled, whatever the kind of
\* executor failure.
C4_FailedBatchHasRetry ==
    \A b \in 1..Len(batches) :
        (AttemptFailed(b) /\ batches[b].payload.retriesPerformedSoFar < 15)
        => JobsOf(b) # {}

\* C5: no executor failure, on connect or on the statement, makes the flush
\* handler or insertBatchIntoRedshift raise an error to its caller.
C5_NoErrorRaised ==
    \A b \in 1..Len(batches) : batches[b].status # "Raised"

\* C6: under fairness every batch handed to the Delivery Coordinator eventually
\* is Delivered or Abandoned, with no executor call in flight and no retry job
\* pending for it.
C6_EventuallyTerminal ==
    \A b \in 1..MaxBatches :
        (Len(batches) >= b) ~>
            ( /\ Len(batches) >= b
              /\ batches[b].status \in {"Delivered", "Abandoned"}
              /\ JobsOf(b) = {} )

\* the placeholders of a statement, in the order of the text
RECURSIVE FlatPlaceholders(_)
FlatPlaceholders(groups) ==
    IF groups = <<>> THEN <<>> ELSE Head(groups) \o FlatPlaceholders(Tail(groups))

ColumnField(column) == IF column = "event" THEN "eventName" ELSE column

\* C8: the value at flat position 11*i + j (from 0) of the value list is the
\* field of row i that belongs to the j-th name of the INSERT column list
\* (uuid, event, properties, elements, set, set_once, distinct_id, team_id, ip,
\* site_url, timestamp).
C8_ValuesMatchColumns ==
    \A b \in 1..Len(batches) :
        LET rows == batches[b].payload.batch
            q == batches[b].query
        IN  /\ q.columns = <<"uuid", "event", "properties", "elements", "set", "set_once",
                             "distinct_id", "team_id", "ip", "site_url", "timestamp">>
            /\ \A i \in 0..(Len(rows) - 1) : \A j \in 0..10 :
                  /\ 11 * i + j + 1 \in DOMAIN q.values
                  /\ q.values[11 * i + j + 1] = rows[i + 1][ColumnField(q.columns[j + 1])]

\* C8 witness: a batch of two different rows, each with 11 different fields
\* apart from the empty set_once, has been submitted
C8_Witness ==
    \E b \in 1..Len(batches) :
        LET rows == batches[b].payload.batch
        IN  /\ batches[b].status = "Submitted"
            /\ Len(rows) = 2
            /\ rows[1].uuid # rows[2].uuid
            /\ rows[2].ip = <<"10.0.0.7">>
            /\ rows[2].timestamp # rows[2].distinct_id
            /\ Len(batches[b].query.values) = 22

\* C9: no INSERT is submitted to the executor with zero rows, by a flush of the
\* buffer or by exportEvents.
C9_NoEmptyInsert ==
    /\ \A b \in 1..Len(batches) : Len(batches[b].query.placeholders) >= 1
    /\ \A x \in 1..Len(exports) :
          exports[x].status # "RangeError" => Len(exports[x].query.placeholders) >= 1

\* C10: after a call of executeQuery has ended, on every path, its connection
\* has been released: no client is left connected (the claim's last clause, no
\* connection stays open, which the rest of the claim implies).
C10_NoConnectionStaysOpen ==
    /\ boot.status = "Done" => boot.client # "connected"
    /\ \A b \in 1..Len(batches) :
          batches[b].status \notin {"Pending", "Submitted"} => batches[b].client # "connected"

C12_ConfigErrorHalts ==
    ( \/ \E option \in {"clusterHost", "clusterPort", "dbName", "dbUsername", "dbPassword"} :
             option \notin config.options
      \/ config.clusterHost[Len(config.clusterHost)] # "redshift.amazonaws.com" )
    => /\ plugin \in {"new", "failed"}
       /\ boot.status = "none"
       /\ ~global.buffer
       /\ global.sanitizedTableName = <<>>
       /\ global.eventsToIgnore = {}

SourcesOf(row, input) ==
    {input[k] : k \in {k \in 1..Len(input) : <<input[k].uuid.s>> = row.uuid}}

\* the event is an autocapture event whose properties contain $elements
CarriesElements(event) ==
    /\ event.event = "$autocapture"
    /\ event.properties.t = "object"
    /\ \E k \in 1..Len(event.properties.entries) : event.properties.entries[k].k = "$elements"

\* the tokens of a text
Tokens(text) == {text[k] : k \in 1..Len(text)}

\* C14: the row of an autocapture event whose properties contain $elements has
\* as properties the serialization of the properties without that key (the
\* other keys and values kept), as elements the serialization of the removed
\* value, and no $elements key in its properties.
C14_ElementsMoved ==
    \A x \in 1..Len(exports) : \A i \in 1..Len(exports[x].events) :
        \A event \in SourcesOf(exports[x].events[i], exports[x].input) :
            CarriesElements(event) =>
                LET row == exports[x].events[i]
                    entries == event.properties.entries
                    others == SelectSeq(entries, LAMBDA e : e.k # "$elements")
                    removed == entries[CHOOSE k \in 1..Len(entries) : entries[k].k = "$elements"].v
                IN  /\ row.properties = JSONStringify(Obj(others))
                    /\ row.elements = JSONStringify(removed)
                    /\ "$elements" \notin Tokens(row.properties)

\* C15: the row of an event that is not an autocapture event carrying $elements
\* has '[]' as elements and the serialization of the event's properties, with
\* every key kept ('{}' when the event has no properties), as properties.
C15_ElementsEmptyOtherwise ==
    \A x \in 1..Len(exports) : \A i \in 1..Len(exports[x].events) :
        \A event \in SourcesOf(exports[x].events[i], exports[x].input) :
            ~CarriesElements(event) =>
                LET row == exports[x].events[i]
                IN  /\ row.elements = <<"[", "]">>
                    /\ row.properties = IF event.properties.t = "object"
                                         THEN JSONStringify(event.properties)
                                         ELSE <<"{", "}">>
                    /\ event.properties.t = "object" =>
                          \A k \in 1..Len(event.properties.entries) :
                              event.properties.entries[k].k \in Tokens(row.properties)

\* C15 witness: a $pageview event with $elements and an autocapture event
\* without it were parsed, both with '[]' as elements, the first with
\* $elements still in its properties
C15_Witness ==
    /\ Len(exports) = 2
    /\ exports[1].events # <<>>
    /\ exports[1].events[1].eventName = <<"$pageview">>
    /\ exports[1].events[1].elements = <<"[", "]">>
    /\ "$elements" \in Tokens(exports[1].events[1].properties)
    /\ exports[2].events # <<>>
    /\ exports[2].events[1].eventName = <<"$autocapture">>
    /\ exports[2].events[1].elements = <<"[", "]">>
    /\ exports[2].events[1].properties = <<"{", "\"", "a", "\"", ":", "\"", "1", "\"", "}">>

\* the name is an item of the configured eventsToIgnore, blanks around it aside
ListedToIgnore(name) ==
    \E k \in 1..Len(config.eventsToIgnore) :
        SelectSeq(config.eventsToIgnore[k], LAMBDA c : c # " ") = <<name>>

\* the rows in the buffer and in the batches flushed from it
RECURSIVE BatchRows(_)
BatchRows(b) ==
    IF b = 0 THEN <<>> ELSE BatchRows(b - 1) \o batches[b].payload.batch
HandedRows == BatchRows(Len(batches)) \o buffer

\* how many items of a sequence satisfy Test
CountOf(seq, Test(_)) == Cardinality({k \in 1..Len(seq) : Test(seq[k])})

\* C16: no row of an event whose name is in the configured ignore list is in
\* the buffer, in a batch or among the rows of an INSERT of exportEvents, and
\* every event handed to exportEvents that is not in the list and has a valid
\* timestamp is exported exactly once (as often as it was handed in).
C16_IgnoredNeverDelivered ==
    /\ \A k \in 1..Len(HandedRows) : ~ListedToIgnore(HandedRows[k].eventName[1])
    /\ \A x \in 1..Len(exports) :
          /\ \A i \in 1..Len(exports[x].events) :
                ~ListedToIgnore(exports[x].events[i].eventName[1])
          /\ \A k \in 1..Len(exports[x].input) :
                LET event == exports[x].input[k]
                IN  ( /\ ~ListedToIgnore(event.event)
                      /\ event.timestamp.t = "string"
                      /\ event.timestamp.s \in {"2022-08-18T15:42:32.597Z",
                                                 "2022-08-18T17:42:32.597+02:00"} )
                    => CountOf(exports[x].events, LAMBDA row : row.uuid = <<event.uuid.s>>)
                       = CountOf(exports[x].input, LAMBDA e : e = event)

\* the event has none of the timestamp candidates
NoTimestampCandidate(event) ==
    /\ event.timestamp.t \in {"undefined", "null"}
    /\ event.now.t \in {"undefined", "null"}
    /\ event.sent_at.t \in {"undefined", "null"}
    /\ \/ event.properties.t # "object"
       \/ \A k \in 1..Len(event.properties.entries) :
             event.properties.entries[k].k # "timestamp"

C18_FlushAtLimit ==
    [][LET n == Len(batches)
           added == Len(HandedRows') = Len(HandedRows) + 1
           row == HandedRows'[Len(HandedRows')]
       IN  /\ Len(batches') <= n + 1
           /\ added =>
                 IF Len(buffer) + 1 >= BufferLimit
                 THEN /\ Len(batches') = n + 1
                      /\ SubSeq(batches', 1, n) = batches
                      /\ batches'[n + 1].payload.batch = Append(buffer, row)
                      /\ batches'[n + 1].payload.retriesPerformedSoFar = 0
                      /\ batches'[n + 1].status = "Submitted"
                      /\ buffer' = <<>>
                 ELSE /\ buffer' = Append(buffer, row)
                      /\ batches' = batches]_vars

\* C18 witness: two flushes at the limit, the second with the rows added after
\* the first, and the buffer empty after the add that reached the limit
C18_Witness ==
    /\ Len(batches) = 2
    /\ Len(batches[1].payload.batch) = BufferLimit
    /\ Len(batches[2].payload.batch) = BufferLimit
    /\ batches[1].payload.batch # batches[2].payload.batch
    /\ batches[2].payload.retriesPerformedSoFar = 0
    /\ onEventCall.outcome = "added"
    /\ batches[2].payload.batch[BufferLimit].uuid = <<onEventCall.event.uuid.s>>
    /\ buffer = <<>>

\* C19: in every interleaving of adds, timer flushes and the forced flush, a
\* step either keeps the rows handed to the buffer (those of the batches in
\* their order, then those pending) as they are, or appends one row to them;
\* a call of onEvent that adds appends the row of its event; and a batch, once
\* flushed, is never changed: no row is lost and none is in two batches.
C19_NoRowLostNoDoubleFlush ==
    [][/\ \/ HandedRows' = HandedRows
          \/ /\ Len(HandedRows') = Len(HandedRows) + 1
             /\ SubSeq(HandedRows', 1, Len(HandedRows)) = HandedRows
       /\ Len(batches') >= Len(batches)
       /\ \A b \in 1..Len(batches) : batches'[b].payload.batch = batches[b].payload.batch
       /\ \A b \in 1..Len(batches') : batches'[b].payload.batch # <<>>
       /\ \A event \in Events :
             (onEvent(event) /\ onEventCall'.outcome = "added")
             => /\ Len(HandedRows') = Len(HandedRows) + 1
                /\ HandedRows'[Len(HandedRows')].uuid = <<event.uuid.s>>]_vars

\* C19 witness: a flush by the timer, a flush at the limit and a row pending:
\* four adds, each row in one place
C19_Witness ==
    /\ Len(batches) = 2
    /\ Len(batches[1].payload.batch) = 1
    /\ Len(batches[2].payload.batch) = 2
    /\ Len(buffer) = 1
    /\ Len(HandedRows) = 4

\* C20: the step of teardownPlugin on a ready plugin leaves the buffer empty,
\* and when rows were pending it hands all of them, in one batch, to the flush
\* handler, which submits the batch within that step.
C20_TeardownFlushes ==
    [][(plugin = "ready" /\ plugin' = "down")
       => /\ buffer' = <<>>
          /\ IF buffer = <<>> THEN batches' = batches
             ELSE /\ Len(batches') = Len(batches) + 1
                  /\ SubSeq(batches', 1, Len(batches)) = batches
                  /\ batches'[Len(batches')].payload.batch = buffer
                  /\ batches'[Len(batches')].status = "Submitted"
                  /\ batches'[Len(batches')].execCalls = 1]_vars

\* C20 witness: the plugin is down, the row of the latest event is the only
\* row of the last batch, and nothing is pending
C20_Witness ==
    /\ plugin = "down"
    /\ Len(batches) = 2
    /\ Len(batches[2].payload.batch) = 1
    /\ onEventCall.outcome = "added"
    /\ batches[2].payload.batch[1].uuid = <<onEventCall.event.uuid.s>>
    /\ batches[2].status = "Submitted"
    /\ buffer = <<>>

RECURSIVE Deleting(_, _)
\* text with every character outside allowed deleted, the rest in order
Deleting(text, allowed) ==
    IF text = <<>> THEN <<>>
    ELSE (IF Head(text) \in allowed THEN <<Head(text)>> ELSE <<>>)
         \o Deleting(Tail(text), allowed)

\* C21: the sanitizer returns its input with every character that is not an
\* alphanumeric or the underscore deleted (the sanitizer of the exportEvents
\* variant keeps the dot as well) and the other characters in their order:
\* setupPlugin of either variant passes every table name, none is rejected, and
\* the name it goes on with holds no blank and no punctuation
C21_SanitizerDeletes ==
    [][/\ (setupPlugin /\ plugin' = "bootstrapping")
            => global'.sanitizedTableName = Deleting(config.tableName, WordChars)
       /\ (ExportSetupPlugin /\ plugin' = "bootstrapping")
            => global'.sanitizedTableName = Deleting(config.tableName, WordChars \cup {"."})
       /\ (setupPlugin \/ ExportSetupPlugin)
            => /\ plugin' = "bootstrapping"
               /\ \A k \in 1..Len(global'.sanitizedTableName) :
                      global'.sanitizedTableName[k] \notin {" ", ";"}]_vars

\* a name with a blank and a semicolon between a letter and a digit has lost both
C21_Witness ==
    /\ plugin = "bootstrapping"
    /\ config.tableName = <<"m", " ", ";", "1">>
    /\ global.sanitizedTableName = <<"m", "1">>

\* value is text wrapped as JSON_PARSE(text)
Wrapped(value, text) == value = <<"JSON_PARSE(">> \o text \o <<")">>

\* the value the statement of call x binds to column j of its row i
BoundValue(x, i, j) == exports[x].query.values[ColumnsPerRow * (i - 1) + j]

\* C22: in every call of exportEvents that reaches the executor, the
\* properties, set and set_once values of every row are wrapped as
\* JSON_PARSE(...) exactly when the CREATE TABLE of bootstrap declared the
\* column super, and are the serialized text itself exactly when it declared
\* the column varchar; the elements value is never wrapped
C22_DialectConsistent ==
    \A x \in 1..Len(exports) :
        exports[x].status # "RangeError" =>
            \A i \in 1..Len(exports[x].events) :
                LET row == exports[x].events[i]
                    declared == boot.statements[1]
                IN  /\ \A j \in {3, 5, 6} :
                           LET column == InsertColumns[j]
                           IN  /\ declared[column] \in {"super", "varchar(65535)"}
                               /\ declared[column] = "super"
                                    <=> Wrapped(BoundValue(x, i, j), row[column])
                               /\ declared[column] = "varchar(65535)"
                                    <=> BoundValue(x, i, j) = row[column]
                    /\ InsertColumns[4] = "elements"
                    /\ BoundValue(x, i, 4) = row.elements

\* the executor calls in flight for the rows of flush f
InFlight(f) == {b \in 1..Len(batches) : batches[b].flush = f /\ batches[b].status = "Submitted"}

\* the retry jobs for the rows of flush f that have not fired yet
Pending(f) == {job \in jobs : batches[job.b].flush = f /\ job.fired = <<>>}

\* C23: the rows of a flush never have two attempts at once: at most one
\* executor call in flight or one retry job waiting to fire, never both and
\* never two of either; different batches may have retries outstanding at the
\* same time
C23_OneAttemptPerBatch ==
    \A f \in 1..Len(batches) :
        Cardinality(InFlight(f)) + Cardinality(Pending(f)) <= 1

\* C24: a flushed batch starts with retriesPerformedSoFar = 0; every payload
\* in the executor or with the scheduler has 0 <= retriesPerformedSoFar <= 15;
\* at most 15 retry jobs are ever enqueued for a batch and at most 16 executor
\* calls made for it; and a batch is abandoned only after its attempt with
\* retriesPerformedSoFar = 15, which follows 15 retry jobs
C24_RetriesBounded ==
    /\ \A b \in 1..Len(batches) :
           LET rec == batches[b]
           IN  /\ rec.payload.retriesPerformedSoFar \in 0..15
               /\ rec.enqueues <= 15
               /\ rec.execCalls <= 16
               /\ rec.execCalls = 1 => rec.payload.retriesPerformedSoFar = 0
               /\ rec.status = "Abandoned"
                    => rec.payload.retriesPerformedSoFar = 15 /\ rec.enqueues = 15
    /\ \A job \in jobs : job.payload.retriesPerformedSoFar \in 1..15

\* the last attempt of a batch is in the executor: the 16th call, after 15 retry jobs
C24_Witness ==
    \E b \in 1..Len(batches) :
        /\ batches[b].status = "Submitted"
        /\ batches[b].payload.retriesPerformedSoFar = 15
        /\ batches[b].enqueues = 15
        /\ batches[b].execCalls = 16

\* C25: the end of an attempt, delivered or failed, leaves the payload the
\* attempt received as it was (rows, batchId and retriesPerformedSoFar); the
\* payload of the retry job it enqueues is another payload, with the count
\* advanced; and the second firing of a job submits the rows, the batchId and
\* the retry count that its first firing submitted
C25_PayloadThreadedImmutably ==
    [][/\ \A b \in 1..Len(batches) :
              batches[b].status = "Submitted" /\ batches'[b].status # "Submitted"
                  => /\ batches'[b].payload = batches[b].payload
                     /\ \A job \in jobs' \ jobs :
                            /\ job.payload # batches[b].payload
                            /\ job.payload.batch = batches[b].payload.batch
                            /\ job.payload.batchId = batches[b].payload.batchId
       /\ \A job \in jobs :
              (job.fired # <<>> /\ uploadBatchToRedshiftAgain(job))
                  => /\ Len(batches') = Len(batches) + 1
                     /\ batches'[Len(batches')].payload = job.fired[1]]_vars

\* a job has fired twice: the second delivery of the flush is in the executor
\* with the retry count 2 of the job, while the first has moved on to a later
\* attempt
C25_Witness ==
    /\ Len(batches) = 2
    /\ batches[2].flush = batches[1].flush
    /\ batches[2].status = "Submitted"
    /\ batches[2].payload.retriesPerformedSoFar = 2
    /\ batches[1].payload.retriesPerformedSoFar > 2
    /\ batches[2].payload.batch = batches[1].payload.batch

\* the CREATE TABLE of setupPlugin has ended without an error
Bootstrapped == boot.status = "Done" /\ boot.outcome = "ok" /\ ~boot.raised

\* C26: a setup that passes the tests of its configuration hands exactly one
\* statement to the executor, the CREATE TABLE of the sanitized table name, and
\* that statement has ended without an error whenever the buffer exists, the
\* plugin is ready, or a batch has been handed to the executor
C26_BootstrapFirst ==
    /\ Len(boot.statements) = (IF boot.status = "none" THEN 0 ELSE 1)
    /\ \A k \in 1..Len(boot.statements) :
           boot.statements[k].table = Deleting(config.tableName, WordChars)
    /\ global.buffer => Bootstrapped
    /\ plugin = "ready" => Bootstrapped
    /\ \A b \in 1..Len(batches) : batches[b].execCalls > 0 => Bootstrapped

\* C27 as stated: the delays of the 15 retry jobs of a batch that fails on
\* every attempt add up to about 13.6 hours (between 13.5 and 13.7 hours)
C27_CumulativeAbout13Hours ==
    \A b \in 1..Len(batches) :
        batches[b].enqueues = 15
            => /\ batches[b].delayMs >= 135 * 360000
               /\ batches[b].delayMs <= 137 * 360000

\* C27, amended: the delays of the retry jobs enqueued for a batch are
\* 3000 * 2^r ms for r = 0, 1, ... and add up to 3000 * (2^n - 1) ms after n
\* jobs; after the 15 jobs of a batch that fails on every attempt that is
\* 98 301 000 ms, about 27.3 hours, and the last delay alone (r = 14) is
\* 49 152 000 ms, about 13.65 hours
C27_CumulativeBackoff ==
    /\ \A b \in 1..Len(batches) :
           /\ batches[b].delayMs = 3000 * (2^batches[b].enqueues - 1)
           /\ batches[b].enqueues <= 15
           /\ batches[b].enqueues = 15
                => /\ batches[b].delayMs = 98301000
                   /\ batches[b].delayMs > 2725 * 36000
                   /\ batches[b].delayMs < 2735 * 36000
    /\ \A job \in jobs :
           /\ job.delay = 3000 * 2^(job.payload.retriesPerformedSoFar - 1)
           /\ job.payload.retriesPerformedSoFar = 15
                => /\ job.delay = 49152000
                   /\ job.delay > 1360 * 36000
                   /\ job.delay < 1370 * 36000

\* the 15th retry job of a batch is pending: delays of 98 301 000 ms in all
C27_Witness ==
    \E job \in jobs :
        /\ job.payload.retriesPerformedSoFar = 15
        /\ job.delay = 49152000
        /\ batches[job.b].enqueues = 15
        /\ batches[job.b].delayMs = 98301000

\* text is enclosed by the tokens open and close
Enclosed(text, open, close) ==
    Len(text) >= 2 /\ text[1] = open /\ text[Len(text)] = close

\* C28: in every row, properties, set and set_once are the serialization of
\* an object ('{}' at least) and elements is the serialization of a sequence
\* ('[]' at least), whether the event's properties, $set, $set_once or
\* $elements are missing, null, empty or given
C28_StructuredShape ==
    \A x \in 1..Len(exports) : \A i \in 1..Len(exports[x].events) :
        LET row == exports[x].events[i]
        IN  /\ Enclosed(row.properties, "{", "}")
            /\ Enclosed(row.set, "{", "}")
            /\ Enclosed(row.set_once, "{", "}")
            /\ Enclosed(row.elements, "[", "]")

\* C29: a call of onEvent of the ready plugin with an event whose name is in
\* the ignore list leaves the buffer and the batches as they are and ends
\* without an error, whatever the other fields of the event are, a missing
\* timestamp included
C29_IgnoredWithoutError ==
    [][\A event \in IgnoreEvents :
          (plugin = "ready" /\ ListedToIgnore(event.event) /\ onEvent(event))
              => /\ buffer' = buffer
                 /\ batches' = batches
                 /\ onEventCall'.outcome = "ignored"]_vars

====
